---- MODULE Spec2Model ----
(***************************************************************************)
(* check-http: one invocation of runner::collect_checks                    *)
(* (packages/check-http/src/runner.rs).                                    *)
(*                                                                         *)
(* The invocation is a single async task: it builds the request, takes a   *)
(* time stamp, awaits the network round trip, and either maps the          *)
(* transport error to one CheckResult or runs the four evaluators of the *)
(* checking module and flattens their optional results.                    *)
(*                                                                         *)
(* http::prepare_request, http::perform_request and the checking module    *)
(* are not part of runner.rs; they are modelled from the specification     *)
(* (sections 4.1 and 4.4 to 4.7).                                          *)
(***************************************************************************)
EXTENDS Integers, Sequences, FiniteSets

(* ------------------------------ bounds -------------------------------- *)

\* The monotonic clock runs over 0..MaxClock.
MaxClock == 2

\* Configured page sizes run over 0..MaxSize, body sizes over 0..MaxSize+1.
MaxSize == 1

\* Configured response time levels, in seconds, run over -1..MaxSecs.
MaxSecs == 1

\* Clock ticks per second: the resolution of a Duration in the model.
TicksPerSec == 2

(* --------------------------- value domains ---------------------------- *)

\* Option<String>: the empty sequence is None, <<s>> is Some(s).
OptPlain == {<<>>, <<"plain">>}

OptStore == {<<>>, <<"store">>}

\* Option<(usize, Option<usize>)>: <<>> None, <<x>> Some((x, None)),
\* <<x, y>> Some((x, Some(y))).
PageSizes ==
    {<<>>} \cup {<<x>> : x \in 0..MaxSize}
           \cup {<<x, y>> : x \in 0..MaxSize, y \in 0..MaxSize}

\* Option<(f64, Option<f64>)>, in whole seconds; f64 admits negative values.
Secs == -1..MaxSecs

ResponseTimeLevels ==
    {<<>>} \cup {<<x>> : x \in Secs} \cup {<<x, y>> : x \in Secs, y \in Secs}

\* The redirect policy handed to request construction and to check_status.
OnRedirect == {"follow", "nofollow"}

\* Document age levels, already in clock ticks: <<>> none, <<w>> a warn level.
DocumentAgeLevels == {<<>>, <<1>>}

Cli ==
    [auth_pw_plain : OptPlain, auth_pwstore : OptStore, page_size : PageSizes,
     response_time_levels : ResponseTimeLevels, without_body : BOOLEAN,
     onredirect : OnRedirect, document_age_levels : DocumentAgeLevels]

\* What err.to_string() can give.
Messages == {"too many redirects", "redirected to another host"}

\* A reqwest error: the three predicates are independent of each other.
TransportErrors ==
    [is_timeout : BOOLEAN, is_connect : BOOLEAN, is_redirect : BOOLEAN,
     message : Messages]

StatusCodes == {200, 301}

\* The freshness header: absent, unparsable, or a time stamp.
Headers == {"absent", "unparsable", "epoch"}

NoResponse == [status |-> 0, fetched |-> FALSE, size |-> 0, header |-> "absent"]

NoError ==
    [is_timeout |-> FALSE, is_connect |-> FALSE, is_redirect |-> FALSE,
     message |-> "none"]

(* --------------------------- pure functions --------------------------- *)

CheckResult(st, sm) == [state |-> st, summary |-> sm]

\* Option::or : self when it is Some, otherwise the argument.
OptionOrSwapped(a, b) == IF b # <<>> THEN b ELSE a

OptionOr(a, b) == IF a # <<>> THEN a ELSE b

\* args.auth_pw.auth_pw_plain.or(args.auth_pw.auth_pwstore)
PasswordArg(a) == OptionOr(a.auth_pw_plain, a.auth_pwstore)

BuildErrorResultCrit == CheckResult("CRITICAL", "Error building the request")

BuildErrorResult == CheckResult("UNKNOWN", "Error building the request")

\* The if / else-if chain over the transport error.
TransportErrorResultConnectFirst(e) ==
    IF e.is_connect THEN CheckResult("CRITICAL", "Failed to connect")
    ELSE IF e.is_timeout THEN CheckResult("CRITICAL", "timeout")
    ELSE IF e.is_redirect THEN CheckResult("CRITICAL", e.message)
    ELSE CheckResult("UNKNOWN", "Error while sending request")

TransportErrorResultFixedMessage(e) ==
    IF e.is_timeout THEN CheckResult("CRITICAL", "timeout")
    ELSE IF e.is_connect THEN CheckResult("CRITICAL", "Failed to connect")
    ELSE IF e.is_redirect THEN CheckResult("CRITICAL", "redirect")
    ELSE CheckResult("UNKNOWN", "Error while sending request")

TransportErrorResult(e) ==
    IF e.is_timeout THEN CheckResult("CRITICAL", "timeout")
    ELSE IF e.is_connect THEN CheckResult("CRITICAL", "Failed to connect")
    ELSE IF e.is_redirect THEN CheckResult("CRITICAL", e.message)
    ELSE CheckResult("UNKNOWN", "Error while sending request")

\* The flag handed to perform_request.
WithoutBodyArgIgnored(a) == FALSE

WithoutBodyArg(a) == a.without_body

\* match args.page_size { ... }
BoundsOf(ps) ==
    IF Len(ps) = 0 THEN [tag |-> "None"]
    ELSE IF Len(ps) = 1 THEN [tag |-> "Lower", min |-> ps[1]]
    ELSE [tag |-> "LowerUpper", min |-> ps[1], max |-> ps[2]]

\* Duration::from_secs_f64 panics on a negative number of seconds.
FromSecsPanics(x) == x < 0

\* Duration::from_secs_f64: seconds to the Duration's own resolution.
FromSecsF64(x) == x * TicksPerSec

\* Whether building the Limits for check_response_time panics.
LimitsPanic(rtl) == \E i \in 1..Len(rtl) : FromSecsPanics(rtl[i])

\* match args.response_time_levels { ... }
LimitsOfSwapped(rtl) ==
    IF Len(rtl) = 0 THEN [tag |-> "None"]
    ELSE IF Len(rtl) = 1 THEN [tag |-> "Warn", warn |-> FromSecsF64(rtl[1])]
    ELSE [tag |-> "WarnCrit", warn |-> FromSecsF64(rtl[2]),
          crit |-> FromSecsF64(rtl[1])]

LimitsOf(rtl) ==
    IF Len(rtl) = 0 THEN [tag |-> "None"]
    ELSE IF Len(rtl) = 1 THEN [tag |-> "Warn", warn |-> FromSecsF64(rtl[1])]
    ELSE [tag |-> "WarnCrit", warn |-> FromSecsF64(rtl[1]),
          crit |-> FromSecsF64(rtl[2])]

\* vec![status, body, time, age].into_iter().flatten().collect()
CollectResultsBodyFirst(s, b, t, a) == b \o s \o t \o a

CollectResults(s, b, t, a) == s \o b \o t \o a

(* ------------------ the checking module (from the spec) --------------- *)

\* Section 4.4: exactly one result; the severity follows the status class
\* and, for a redirect status, the redirect policy.
check_status(status, policy) ==
    IF status >= 500 THEN <<CheckResult("CRITICAL", "server error")>>
    ELSE IF status >= 400 THEN <<CheckResult("WARNING", "client error")>>
    ELSE IF status >= 300
         THEN IF policy = "nofollow"
              THEN <<CheckResult("OK", "redirect")>>
              ELSE <<CheckResult("WARNING", "redirect not followed")>>
    ELSE <<CheckResult("OK", "success")>>

\* Section 4.5: exactly one result; a skipped body is not checked.
check_body(fetched, size, bounds) ==
    IF ~fetched THEN <<CheckResult("OK", "not checked")>>
    ELSE IF bounds.tag = "None" THEN <<CheckResult("OK", "size")>>
    ELSE IF size < bounds.min THEN <<CheckResult("WARNING", "size too small")>>
    ELSE IF bounds.tag = "LowerUpper" /\ size > bounds.max
         THEN <<CheckResult("WARNING", "size too large")>>
    ELSE <<CheckResult("OK", "size")>>

\* Sections 4.6 and 4.7: the ordered threshold comparison, inclusive.
LimitsState(value, limits) ==
    IF limits.tag = "WarnCrit" /\ value >= limits.crit THEN "CRITICAL"
    ELSE IF limits.tag # "None" /\ value >= limits.warn THEN "WARNING"
    ELSE "OK"

\* Section 4.6: exactly one result.
check_response_time(el, limits) ==
    <<CheckResult(LimitsState(el, limits), "response time")>>

\* Section 4.7: zero or one result; the age is the current time minus the
\* header's time stamp (the epoch, clock value 0).
check_document_age(header, levels, time) ==
    IF header # "epoch" THEN <<>>
    ELSE <<CheckResult(
             LimitsState(time,
                 IF Len(levels) = 0 THEN [tag |-> "None"]
                 ELSE [tag |-> "Warn", warn |-> levels[1]]),
             "document age")>>

\* Section 4.1 and 4.5: the responses perform_request can return; the body
\* is fetched unless the caller asked to skip it.
perform_request_ok(without_body) ==
    {[status |-> st, fetched |-> ~without_body,
      size |-> IF without_body THEN 0 ELSE sz, header |-> h] :
        st \in StatusCodes, sz \in 0..(MaxSize + 1), h \in Headers}

(* ------------------------------- state -------------------------------- *)

VARIABLES
    args,        \* the Cli handed to collect_checks
    pc,          \* the task's position
    clock,       \* the monotonic clock
    now,         \* Instant::now() of line 32, -1 before it
    elapsed,     \* now.elapsed() of line 60, -1 before it
    password,    \* the password handed to prepare_request
    request,     \* prepare_request's Result: "none" before, "built", "failed"
    bodyFlag,    \* the flag handed to perform_request
    response,    \* the response perform_request returned
    err,         \* the error perform_request returned
    boundsArg,   \* the Bounds handed to check_body
    limitsArg,   \* the Limits handed to check_response_time
    calls,       \* the collaborators invoked so far, in order
    r_status,    \* the evaluators' optional results
    r_body,
    r_time,
    r_age,
    results      \* the sequence collect_checks returns

vars ==
    <<args, pc, clock, now, elapsed, password, request, bodyFlag,
      response, err, boundsArg, limitsArg, calls, r_status, r_body, r_time,
      r_age, results>>

Init ==
    /\ args \in Cli
    /\ pc = "start"
    /\ clock = 0
    /\ now = -1
    /\ elapsed = -1
    /\ password = <<>>
    /\ request = "none"
    /\ bodyFlag = FALSE
    /\ response = NoResponse
    /\ err = NoError
    /\ boundsArg = [tag |-> "None"]
    /\ limitsArg = [tag |-> "None"]
    /\ calls = <<>>
    /\ r_status = <<>>
    /\ r_body = <<>>
    /\ r_time = <<>>
    /\ r_age = <<>>
    /\ results = <<>>

(* ------------------------------ actions ------------------------------- *)

\* Time passes.  Only StartTimer, MeasureElapsed and CheckDocumentAge read
\* the clock, so every advance is taken right before one of them: an advance
\* at any earlier step reads the same there.
Tick ==
    /\ pc \in {"prepared", "responded", "time"}
    /\ clock < MaxClock
    /\ clock' = clock + 1
    /\ UNCHANGED <<args, pc, now, elapsed, password, request, bodyFlag,
                   response, err, boundsArg, limitsArg, calls, r_status,
                   r_body, r_time, r_age, results>>

\* Lines 14-25: prepare_request succeeds.
PrepareRequestOk ==
    /\ pc = "start"
    /\ password' = PasswordArg(args)
    /\ request' = "built"
    /\ calls' = Append(calls, "prepare_request")
    /\ pc' = "prepared"
    /\ UNCHANGED <<args, clock, now, elapsed, bodyFlag,
                   response, err, boundsArg, limitsArg, r_status, r_body,
                   r_time, r_age, results>>

\* Lines 14-30: prepare_request fails and collect_checks returns.
PrepareRequestErr ==
    /\ pc = "start"
    /\ password' = PasswordArg(args)
    /\ request' = "failed"
    /\ calls' = Append(calls, "prepare_request")
    /\ results' = <<BuildErrorResult>>
    /\ pc' = "returned"
    /\ UNCHANGED <<args, clock, now, elapsed, bodyFlag,
                   response, err, boundsArg, limitsArg, r_status, r_body,
                   r_time, r_age>>

\* Line 32: let now = Instant::now().
StartTimer ==
    /\ pc = "prepared"
    /\ now' = clock
    /\ calls' = Append(calls, "Instant::now")
    /\ pc' = "timed"
    /\ UNCHANGED <<args, clock, elapsed, password, request, bodyFlag,
                   response, err, boundsArg, limitsArg, r_status,
                   r_body, r_time, r_age, results>>

\* Line 33: perform_request(request, args.without_body) is invoked and the
\* task suspends.
SendRequest ==
    /\ pc = "timed"
    /\ bodyFlag' = WithoutBodyArg(args)
    /\ calls' = Append(calls, "perform_request")
    /\ pc' = "awaiting"
    /\ UNCHANGED <<args, clock, now, elapsed, password, request, response,
                   err, boundsArg, limitsArg, r_status, r_body, r_time,
                   r_age, results>>

\* Line 34: perform_request returns a response; the body is fetched unless
\* the flag asked to skip it.
ReceiveResponse ==
    /\ pc = "awaiting"
    /\ response' \in perform_request_ok(bodyFlag)
    /\ pc' = "responded"
    /\ UNCHANGED <<args, clock, now, elapsed, password, request, bodyFlag,
                   err, boundsArg, limitsArg, calls, r_status, r_body,
                   r_time, r_age, results>>

\* Lines 35-58: perform_request returns an error and collect_checks returns.
ReceiveError ==
    /\ pc = "awaiting"
    /\ \E e \in TransportErrors :
          /\ err' = e
          /\ results' = <<TransportErrorResult(e)>>
    /\ pc' = "returned"
    /\ UNCHANGED <<args, clock, now, elapsed, password, request, bodyFlag,
                   response, boundsArg, limitsArg, calls, r_status, r_body,
                   r_time, r_age>>

\* Line 60: let elapsed = now.elapsed().
MeasureElapsedSinceStart ==
    /\ pc = "responded"
    /\ elapsed' = clock
    /\ calls' = Append(calls, "Instant::elapsed")
    /\ pc' = "measured"
    /\ UNCHANGED <<args, clock, now, password, request, bodyFlag,
                   response, err, boundsArg, limitsArg, r_status,
                   r_body, r_time, r_age, results>>

MeasureElapsed ==
    /\ pc = "responded"
    /\ elapsed' = clock - now
    /\ calls' = Append(calls, "Instant::elapsed")
    /\ pc' = "measured"
    /\ UNCHANGED <<args, clock, now, password, request, bodyFlag,
                   response, err, boundsArg, limitsArg, r_status,
                   r_body, r_time, r_age, results>>

\* Line 63: check_status(response.status, response.version, args.onredirect).
CheckStatus ==
    /\ pc = "measured"
    /\ r_status' = check_status(response.status, args.onredirect)
    /\ calls' = Append(calls, "check_status")
    /\ pc' = "status"
    /\ UNCHANGED <<args, clock, now, elapsed, password, request,
                   bodyFlag, response, err, boundsArg, limitsArg, r_body,
                   r_time, r_age, results>>

\* Lines 64-71: check_body(response.body, bounds).
CheckBody ==
    /\ pc = "status"
    /\ boundsArg' = BoundsOf(args.page_size)
    /\ r_body' = check_body(response.fetched, response.size,
                            BoundsOf(args.page_size))
    /\ calls' = Append(calls, "check_body")
    /\ pc' = "body"
    /\ UNCHANGED <<args, clock, now, elapsed, password, request,
                   bodyFlag, response, err, limitsArg, r_status, r_time,
                   r_age, results>>

\* Lines 72-81: the Limits are built, which panics on a negative level; then
\* check_response_time(elapsed, limits).
CheckResponseTime ==
    /\ pc = "body"
    /\ IF LimitsPanic(args.response_time_levels)
       THEN /\ pc' = "panicked"
            /\ UNCHANGED <<limitsArg, r_time, calls>>
       ELSE /\ limitsArg' = LimitsOf(args.response_time_levels)
            /\ r_time' = check_response_time(elapsed,
                                             LimitsOf(args.response_time_levels))
            /\ calls' = Append(calls, "check_response_time")
            /\ pc' = "time"
    /\ UNCHANGED <<args, clock, now, elapsed, password, request,
                   bodyFlag, response, err, boundsArg, r_status, r_body,
                   r_age, results>>

\* Line 82: check_document_age(&response.headers, args.document_age_levels).
CheckDocumentAge ==
    /\ pc = "time"
    /\ r_age' = check_document_age(response.header, args.document_age_levels,
                                   clock)
    /\ calls' = Append(calls, "check_document_age")
    /\ pc' = "age"
    /\ UNCHANGED <<args, clock, now, elapsed, password, request,
                   bodyFlag, response, err, boundsArg, limitsArg, r_status,
                   r_body, r_time, results>>

\* Lines 62, 84-86: the optional results are flattened and returned.
Collect ==
    /\ pc = "age"
    /\ results' = CollectResults(r_status, r_body, r_time, r_age)
    /\ pc' = "returned"
    /\ UNCHANGED <<args, clock, now, elapsed, password, request,
                   bodyFlag, response, err, boundsArg, limitsArg, calls,
                   r_status, r_body, r_time, r_age>>

Next ==
    \/ Tick
    \/ PrepareRequestOk
    \/ PrepareRequestErr
    \/ StartTimer
    \/ SendRequest
    \/ ReceiveResponse
    \/ ReceiveError
    \/ MeasureElapsed
    \/ CheckStatus
    \/ CheckBody
    \/ CheckResponseTime
    \/ CheckDocumentAge
    \/ Collect

Spec == Init /\ [][Next]_vars

(* ------------------------------ claims -------------------------------- *)

Evaluators ==
    {"check_status", "check_body", "check_response_time", "check_document_age"}

NoEvaluatorRan ==
    /\ \A i \in 1..Len(calls) : calls[i] \notin Evaluators
    /\ r_status = <<>> /\ r_body = <<>> /\ r_time = <<>> /\ r_age = <<>>

\* Section 4.3: the category of a transport error, in priority order.
Category(e) ==
    IF e.is_timeout THEN "Timeout"
    ELSE IF e.is_connect THEN "ConnectFailure"
    ELSE IF e.is_redirect THEN "RedirectPolicyViolation"
    ELSE "Other"

\* C1: on every transport error collect_checks returns exactly one
\* CheckResult and runs no evaluator: CRITICAL "timeout" for a timeout,
\* CRITICAL "Failed to connect" for a connect failure, CRITICAL with the
\* error's own message for a redirect policy violation, UNKNOWN "Error while
\* sending request" for every other error.
C1_TransportErrorGivesOneResult ==
    err # NoError =>
        /\ pc = "returned"
        /\ Len(results) = 1
        /\ NoEvaluatorRan
        /\ Category(err) = "Timeout" =>
               results[1] = [state |-> "CRITICAL", summary |-> "timeout"]
        /\ Category(err) = "ConnectFailure" =>
               results[1] = [state |-> "CRITICAL", summary |-> "Failed to connect"]
        /\ Category(err) = "RedirectPolicyViolation" =>
               results[1] = [state |-> "CRITICAL", summary |-> err.message]
        /\ Category(err) = "Other" =>
               results[1] = [state |-> "UNKNOWN",
                             summary |-> "Error while sending request"]

C1_Witness ==
    /\ pc = "returned"
    /\ Category(err) = "RedirectPolicyViolation"
    /\ err.message = "too many redirects"
    /\ results = <<[state |-> "CRITICAL", summary |-> "too many redirects"]>>

\* C2: when prepare_request fails, collect_checks returns exactly
\* <<UNKNOWN "Error building the request">>, and neither perform_request nor
\* an evaluator is invoked.
C2_BuildFailureShortCircuits ==
    request = "failed" =>
        /\ pc = "returned"
        /\ results = <<[state |-> "UNKNOWN",
                        summary |-> "Error building the request"]>>
        /\ calls = <<"prepare_request">>
        /\ NoEvaluatorRan
        /\ response = NoResponse /\ err = NoError

C2_Witness ==
    /\ request = "failed"
    /\ pc = "returned"
    /\ Len(results) = 1
    /\ results[1].state = "UNKNOWN"

C4_ResponseTimeLevels ==
    r_time # <<>> =>
        LET rtl == args.response_time_levels
            w == rtl[1] * TicksPerSec
            c == rtl[2] * TicksPerSec
            st == r_time[1].state
        IN  /\ elapsed >= 0
            /\ Len(rtl) = 0 => st = "OK"
            /\ Len(rtl) = 1 => st = (IF elapsed >= w THEN "WARNING" ELSE "OK")
            /\ (Len(rtl) = 2 /\ rtl[1] <= rtl[2]) =>
                   st = (IF elapsed < w THEN "OK"
                         ELSE IF elapsed < c THEN "WARNING"
                         ELSE "CRITICAL")

C4_Witness ==
    /\ r_time # <<>>
    /\ Len(args.response_time_levels) = 2
    /\ args.response_time_levels[1] < args.response_time_levels[2]
    /\ elapsed = args.response_time_levels[2] * TicksPerSec
    /\ r_time[1].state = "CRITICAL"

\* C5: with without_body set, the body size result is OK "not checked" for
\* every configured Bounds.
C5_SkippedBodyIsNotChecked ==
    (args.without_body /\ r_body # <<>>) =>
        r_body = <<[state |-> "OK", summary |-> "not checked"]>>

C5_Witness ==
    /\ args.without_body
    /\ args.page_size = <<1, 1>>
    /\ boundsArg = [tag |-> "LowerUpper", min |-> 1, max |-> 1]
    /\ r_body = <<[state |-> "OK", summary |-> "not checked"]>>

AtMostOnePredicate(e) ==
    /\ ~(e.is_timeout /\ e.is_connect)
    /\ ~(e.is_timeout /\ e.is_redirect)
    /\ ~(e.is_connect /\ e.is_redirect)

\* C7: the predicates are tested in the order timeout, connect, redirect,
\* other and the first that holds decides, also when several hold at once;
\* on an error with at most one predicate true another order of the tests
\* gives the same result.
C7_FirstPredicateDecides ==
    err # NoError =>
        /\ err.is_timeout => results[1].summary = "timeout"
        /\ (~err.is_timeout /\ err.is_connect) =>
               results[1].summary = "Failed to connect"
        /\ (~err.is_timeout /\ ~err.is_connect /\ err.is_redirect) =>
               results[1].summary = err.message
        /\ (~err.is_timeout /\ ~err.is_connect /\ ~err.is_redirect) =>
               results[1].summary = "Error while sending request"
        /\ AtMostOnePredicate(err) =>
               results[1] = TransportErrorResultConnectFirst(err)

\* An error on which is_timeout and is_connect both hold: the result is the
\* timeout's, and testing is_connect first would have given another one.
C7_Witness ==
    /\ err # NoError
    /\ err.is_timeout /\ err.is_connect
    /\ results[1].summary = "timeout"
    /\ results[1] # TransportErrorResultConnectFirst(err)

Canonical ==
    <<"prepare_request", "Instant::now", "perform_request", "Instant::elapsed",
      "check_status", "check_body", "check_response_time", "check_document_age">>

\* C8: the steps happen at most once and in the order prepare_request, time
\* stamp, perform_request, elapsed, status, body, response time, document
\* age; perform_request only after prepare_request succeeded, the evaluators
\* only after a response; the elapsed time spans the time stamp to the
\* reading after the return and is not taken on a failed request.
C8_OrderOfSteps ==
    /\ Len(calls) <= Len(Canonical)
    /\ calls = SubSeq(Canonical, 1, Len(calls))
    /\ Len(calls) >= 2 => request = "built"
    /\ Len(calls) >= 4 => response # NoResponse /\ err = NoError
    /\ err # NoError => elapsed = -1 /\ Len(calls) = 3
    /\ elapsed # -1 =>
           /\ now >= 0
           /\ elapsed >= 0
           /\ elapsed <= clock - now
           /\ pc = "measured" => elapsed = clock - now

C8_Witness ==
    /\ pc = "returned"
    /\ calls = Canonical
    /\ now > 0
    /\ elapsed > 0

\* What section 6 calls the thresholds, as the Bounds and Limits they denote.
ExpectedBounds(ps) ==
    IF ps = <<>> THEN [tag |-> "None"]
    ELSE IF Len(ps) = 1 THEN [tag |-> "Lower", min |-> ps[1]]
    ELSE [tag |-> "LowerUpper", min |-> ps[1], max |-> ps[2]]

ExpectedLimits(rtl) ==
    IF rtl = <<>> THEN [tag |-> "None"]
    ELSE IF Len(rtl) = 1 THEN [tag |-> "Warn", warn |-> rtl[1] * TicksPerSec]
    ELSE [tag |-> "WarnCrit", warn |-> rtl[1] * TicksPerSec,
          crit |-> rtl[2] * TicksPerSec]

\* C9: once check_body has run on a response, the thresholds reach the
\* evaluators as configured, unchecked and unchanged, also with warn > crit
\* or min > max, and the run goes on to return its results.
C9_ThresholdsPassThrough ==
    (response # NoResponse /\ r_body # <<>>) =>
        /\ boundsArg = ExpectedBounds(args.page_size)
        /\ pc # "panicked"
        /\ pc # "body" => limitsArg = ExpectedLimits(args.response_time_levels)

\* C10: the password handed to request construction is the plaintext one
\* whenever it is configured, the password store entry only when it is not,
\* and none when neither is configured.
C10_PlainPasswordFirst ==
    request # "none" =>
        /\ args.auth_pw_plain # <<>> => password = args.auth_pw_plain
        /\ (args.auth_pw_plain = <<>> /\ args.auth_pwstore # <<>>) =>
               password = args.auth_pwstore
        /\ (args.auth_pw_plain = <<>> /\ args.auth_pwstore = <<>>) =>
               password = <<>>

C10_Witness ==
    /\ request = "built"
    /\ args.auth_pw_plain = <<"plain">>
    /\ args.auth_pwstore = <<"store">>
    /\ password = <<"plain">>

====
